---- MODULE Spec2Model ----
(***************************************************************************)
(* A model of the Rubik's cube core (src/core.cpp): the 54 stickers, the   *)
(* move queue and the single animation record, with one action per public  *)
(* method of class Core.                                                   *)
(*                                                                         *)
(* Strings are sequences of one-character strings.  Angles are integers in *)
(* units of 2^-18 degree, the spacing of the 32-bit floats between 32 and  *)
(* 64 degrees: every float of 32 degrees or more is a whole number of      *)
(* units, and the float additions of update round as FloatRound does.      *)
(* Sticker index i of the code is index i+1 here (TLA+ sequences start at  *)
(* 1).                                                                     *)
(***************************************************************************)
EXTENDS Integers, Sequences, FiniteSets, TLC

VARIABLES
    stickers,   \* m_stickers: 54 records [cubePos, normal, color]
    queue,      \* m_queue: sequence of move strings
    anim,       \* m_anim: [active, axis, layer, targetAngle, currentAngle]
    call,       \* the last public call: [op, ret, completed (update finished a move)]
    accepted,   \* history: the strings queueMove accepted, in order
    applied,    \* history: the (axis, layer, angle) of every discrete mutation
    fifoOnly,   \* history: neither clearQueue nor startMoveImmediate was called
    imm,        \* history: the last successful startMoveImmediate and the stickers it found
    nMoves,     \* number of moves accepted so far (queued or immediate)
    atStart     \* history: the stickers when the latest animation started

vars == <<stickers, queue, anim, call, accepted, applied, fifoOnly, imm, nMoves, atStart>>

(***************************************************************************)
(* Bounds of the model.                                                    *)
(***************************************************************************)
\* Spec: the moves queueMove and startMoveImmediate accept in one run
MaxMoves == 2

\* SpecValid: the queued moves that precede a move sequence on one face
MaxScramble == 1

\* SpecValid: the queued moves that precede startMoveImmediate or clearQueue
MaxBefore == 2

(***************************************************************************)
(* Characters and strings.                                                 *)
(***************************************************************************)
\* the value of s[0] for an empty std::string, and strchr's terminator
NUL == "NUL"

FaceLetters == <<"U", "D", "L", "R", "F", "B">>

Faces == {FaceLetters[i] : i \in 1..Len(FaceLetters)}

\* the face creation order of getSticker*
FACE_ORDER == <<"U", "R", "F", "D", "L", "B">>

isspace(c) == c = " "

toupper(c) ==
    CASE c = "u" -> "U"
      [] c = "d" -> "D"
      [] c = "l" -> "L"
      [] c = "r" -> "R"
      [] c = "f" -> "F"
      [] c = "b" -> "B"
      [] c = "x" -> "X"
      [] OTHER -> c

\* the loop of parseMove that copies the non-space characters of move
RECURSIVE StripSpace(_)
StripSpace(move) ==
    IF move = <<>> THEN <<>>
    ELSE IF isspace(Head(move)) THEN StripSpace(Tail(move))
         ELSE <<Head(move)>> \o StripSpace(Tail(move))

\* strchr("UDLRFB", c) != nullptr: the terminating NUL is part of the string
InFaceString(c) == c \in Faces \/ c = NUL

\* parseMove: ok is the return value; face, amount and prime are the out
\* parameters (meaningful only when ok)
parseMove(move) ==
    IF move = <<>> THEN [ok |-> FALSE, face |-> NUL, amount |-> 0, prime |-> FALSE]
    ELSE LET s == StripSpace(move)
             face == toupper(IF Len(s) = 0 THEN NUL ELSE s[1])
         IN  IF ~InFaceString(face)
             THEN [ok |-> FALSE, face |-> face, amount |-> 0, prime |-> FALSE]
             ELSE [ok |-> TRUE,
                   face |-> face,
                   amount |-> IF Len(s) >= 2 /\ s[2] = "2" THEN 2 ELSE 1,
                   prime |-> \/ (Len(s) >= 2 /\ s[2] # "2" /\ s[2] = "'")
                             \/ (Len(s) >= 3 /\ s[2] = "2" /\ s[3] = "'")]

(***************************************************************************)
(* Angles.                                                                 *)
(***************************************************************************)
\* one degree in angle units (2^18)
Degree == 262144

\* update's tolerances in angle units: x < 1e-3f is x < Eps1 (1e-3 degree is
\* 262.1 units) and x <= 1e-4f is x <= Eps2 (1e-4 degree is 26.2 units)
Eps1 == 263
Eps2 == 26

Abs(x) == IF x < 0 THEN -x ELSE x

Min(a, b) == IF b < a THEN b ELSE a

\* the spacing of the floats around x: 2^-18 degree below 64 degrees (the
\* model keeps the smaller floats to that grid too), doubling with each
\* power of two
FloatSpacing(x) ==
    IF Abs(x) < 64 * Degree THEN 1
    ELSE IF Abs(x) < 128 * Degree THEN 2
    ELSE IF Abs(x) < 256 * Degree THEN 4
    ELSE IF Abs(x) < 512 * Degree THEN 8
    ELSE 16

\* the float nearest to x, ties to the even mantissa: the result of a float
\* addition or subtraction whose exact result is x
FloatRound(x) ==
    LET q == FloatSpacing(x)
        lo == (x \div q) * q
        r == x - lo
    IN  IF 2 * r < q THEN lo
        ELSE IF 2 * r > q THEN lo + q
        ELSE IF (lo \div q) % 2 = 0 THEN lo ELSE lo + q

(***************************************************************************)
(* Stickers.                                                               *)
(***************************************************************************)
faceToColor(face) ==
    CASE face = "U" -> "white"
      [] face = "D" -> "yellow"
      [] face = "F" -> "red"
      [] face = "B" -> "orange"
      [] face = "R" -> "green"
      [] face = "L" -> "blue"
      [] OTHER -> "grey"

FaceNormal(face) ==
    CASE face = "U" -> <<0, 1, 0>>
      [] face = "D" -> <<0, -1, 0>>
      [] face = "F" -> <<0, 0, 1>>
      [] face = "B" -> <<0, 0, -1>>
      [] face = "R" -> <<1, 0, 0>>
      [] face = "L" -> <<-1, 0, 0>>
      [] OTHER -> <<0, 0, 0>>

FixCoord(face) == IF face \in {"U", "F", "R"} THEN 1 ELSE -1

Dot(u, v) == u[1] * v[1] + u[2] * v[2] + u[3] * v[3]

Cross(u, v) ==
    <<u[2] * v[3] - u[3] * v[2], u[3] * v[1] - u[1] * v[3], u[1] * v[2] - u[2] * v[1]>>

\* the constructor arguments of main.cpp, in thousandths
CubieSize == 900
Gap == 30

\* m_spacing
Spacing == CubieSize + Gap

\* rebuildBaseModel: offset = 0.5f * m_cubieSize + 0.001f
Offset == CubieSize \div 2 + 1

\* rebuildBaseModel: stickerScale = m_cubieSize * 0.92f
StickerScale == (CubieSize * 92) \div 100

UnitVectors ==
    {<<1, 0, 0>>, <<-1, 0, 0>>, <<0, 1, 0>>, <<0, -1, 0>>, <<0, 0, 1>>, <<0, 0, -1>>}

\* v turned by 90 degrees about the unit vector a (angleAxis of a quarter
\* turn applied to v)
QuarterAbout(a, v) ==
    LET along == Dot(a, v)
        c == Cross(a, v)
    IN  <<c[1] + along * a[1], c[2] + along * a[2], c[3] + along * a[3]>>

\* the rotation q of rebuildBaseModel that takes zDir to the normal n, as
\* the images of the three unit vectors
FaceOutward(n) ==
    LET zDir == <<0, 0, 1>>
    IN  IF Cross(zDir, n) = <<0, 0, 0>>
        THEN IF Dot(zDir, n) > 0
             THEN <<<<1, 0, 0>>, <<0, 1, 0>>, <<0, 0, 1>>>>
             ELSE <<<<-1, 0, 0>>, <<0, 1, 0>>, <<0, 0, -1>>>>
        ELSE LET axis == Cross(zDir, n)
             IN  <<QuarterAbout(axis, <<1, 0, 0>>), QuarterAbout(axis, <<0, 1, 0>>),
                   QuarterAbout(axis, <<0, 0, 1>>)>>

Scaled(k, v) == <<k * v[1], k * v[2], k * v[3]>>

Plus(u, v) == <<u[1] + v[1], u[2] + v[2], u[3] + v[3]>>

\* toMat4(q) * scale(stickerScale, stickerScale, 1) of rebuildBaseModel for
\* each of the six normals: the columns of the linear part, in thousandths
OutwardScaled ==
    [n \in UnitVectors |->
        LET q == FaceOutward(n)
        IN  <<Scaled(StickerScale, q[1]), Scaled(StickerScale, q[2]), Scaled(1000, q[3])>>]

\* the matrix rebuildBaseModel stores for a sticker at cubePos with normal:
\* translate(pos) * toMat4(q) * scale(stickerScale, stickerScale, 1), as its
\* translation and the three columns of its linear part, in thousandths.  A
\* sticker the NaN conversions took off the cube has a zero normal (q is
\* NaN) or the normal (INT_MIN, INT_MIN, INT_MIN) (q is a rotation about a
\* diagonal, far from the cube)
rebuildBaseModel(cubePos, normal) ==
    IF normal \in UnitVectors /\ \A k \in 1..3 : cubePos[k] \in -1..1
    THEN [pos |-> Plus(Scaled(Spacing, cubePos), Scaled(Offset, normal)),
          linear |-> OutwardScaled[normal]]
    ELSE IF normal = <<0, 0, 0>>
    THEN [pos |-> Scaled(Spacing, cubePos), linear |-> "NaN"]
    ELSE [pos |-> "far", linear |-> "skew"]

\* Sticker::baseModel of sticker s.  The field is written by rebuildBaseModel
\* alone, which buildInitialStickers calls on the sticker it creates and
\* applyRotationDiscrete calls on every sticker after it has turned the
\* layer; cubePos and normal are written nowhere else.  So whenever a public
\* method reads the field it holds rebuildBaseModel of the sticker's cubePos
\* and normal, and the model computes it where the code reads it.
baseModel(s) == rebuildBaseModel(s.cubePos, s.normal)

\* the sticker built for face at grid position (a, b)
InitialSticker(face, a, b) ==
    [cubePos |-> IF face \in {"U", "D"} THEN <<a, FixCoord(face), -b>>
                 ELSE IF face \in {"F", "B"} THEN <<a, -b, FixCoord(face)>>
                 ELSE <<FixCoord(face), -b, a>>,
     normal  |-> FaceNormal(face),
     color   |-> faceToColor(face)]

\* buildInitialStickers: faces in FACE_ORDER, a outer and b inner, both -1..1
buildInitialStickers ==
    [i \in 1..54 |->
        LET k == i - 1
            face == FACE_ORDER[(k \div 9) + 1]
            a == ((k % 9) \div 3) - 1
            b == (k % 3) - 1
        IN  InitialSticker(face, a, b)]

\* the outcomes of (int) applied to a NaN float: undefined behaviour, INT_MIN
\* on x86 (cvttss2si), 0 on ARM (fcvtzs)
NaNToInt == {-2147483647 - 1, 0}

\* cos and sin of the angles startParsedMove produces
Cos(angle) == IF angle = 0 THEN 1 ELSE IF Abs(angle) = 90 * Degree THEN 0 ELSE -1

Sin(angle) == IF angle = 90 * Degree THEN 1 ELSE IF angle = -(90 * Degree) THEN -1 ELSE 0

\* n / 1000 rounded to the nearest integer
RoundMilli(n) == IF n >= 0 THEN (n + 500) \div 1000 ELSE -((500 - n) \div 1000)

\* RotateRound as it would be without glm::radians: the angle in degrees is
\* taken for radians (90 rad is 116.6 degrees, 180 rad is 233.2 degrees), with
\* cos and sin in thousandths
RotateRoundNoRadians(axis, angle, v, g) ==
    LET c == IF Abs(angle) = 90 * Degree THEN -448 ELSE -598
        s == IF angle = 90 * Degree THEN 894
             ELSE IF angle = -(90 * Degree) THEN -894 ELSE -801
        R(x) == RoundMilli(x)
    IN  IF axis = <<1, 0, 0>>
        THEN <<v[1], R(c * v[2] - s * v[3]), R(s * v[2] + c * v[3])>>
        ELSE IF axis = <<0, 1, 0>>
        THEN <<R(c * v[1] + s * v[3]), v[2], R(c * v[3] - s * v[1])>>
        ELSE IF axis = <<0, 0, 1>>
        THEN <<R(c * v[1] - s * v[2]), R(s * v[1] + c * v[2]), v[3]>>
        ELSE <<g, g, g>>

\* round(q * v) for q = angleAxis(radians(angle), normalize(axis)): the exact
\* right-handed rotation when axis is a unit axis (the float error is far
\* below 0.5 for components in -1..1); normalize of the zero axis is NaN, so
\* is every component of q * v, and the int conversion yields g
RotateRound(axis, angle, v, g) ==
    LET c == Cos(angle)
        s == Sin(angle)
    IN  IF axis = <<1, 0, 0>> THEN <<v[1], c * v[2] - s * v[3], s * v[2] + c * v[3]>>
        ELSE IF axis = <<0, 1, 0>> THEN <<c * v[1] + s * v[3], v[2], c * v[3] - s * v[1]>>
        ELSE IF axis = <<0, 0, 1>> THEN <<c * v[1] - s * v[2], s * v[1] + c * v[2], v[3]>>
        ELSE <<g, g, g>>

\* AxisCoord with the y and z components taken for each other
AxisCoordSwapped(axis, cubePos) ==
    IF 2 * Abs(axis[1]) > 1 THEN cubePos[1]
    ELSE IF 2 * Abs(axis[2]) > 1 THEN cubePos[3]
    ELSE cubePos[2]

\* the coordinate of cubePos along the axis, as applyRotationDiscrete picks it
AxisCoord(axis, cubePos) ==
    IF 2 * Abs(axis[1]) > 1 THEN cubePos[1]
    ELSE IF 2 * Abs(axis[2]) > 1 THEN cubePos[2]
    ELSE cubePos[3]

\* applyRotationDiscrete as it would be if the stickers stayed in place and the
\* colors moved: each place of the layer takes the color that turns into it
applyRotationDiscreteRecolor(stk, axis, layer, angleDeg, g) ==
    [i \in DOMAIN stk |->
        LET from == {j \in DOMAIN stk :
                        /\ AxisCoord(axis, stk[j].cubePos) = layer
                        /\ RotateRound(axis, angleDeg, stk[j].cubePos, g) = stk[i].cubePos
                        /\ RotateRound(axis, angleDeg, stk[j].normal, g) = stk[i].normal}
        IN  IF from = {} THEN stk[i]
            ELSE [stk[i] EXCEPT !.color = stk[CHOOSE j \in from : TRUE].color]]

\* applyRotationDiscrete as it would be if it turned the cubePos of the
\* layer's stickers and left their normals as they were
applyRotationDiscreteKeepingNormals(stk, axis, layer, angleDeg, g) ==
    [i \in DOMAIN stk |->
        IF AxisCoord(axis, stk[i].cubePos) # layer THEN stk[i]
        ELSE [stk[i] EXCEPT !.cubePos = RotateRound(axis, angleDeg, stk[i].cubePos, g)]]

\* applyRotationDiscrete on the sticker sequence stk (its second loop
\* rebuilds every base model from the new cubePos and normal: see baseModel)
applyRotationDiscrete(stk, axis, layer, angleDeg, g) ==
    [i \in DOMAIN stk |->
        IF AxisCoord(axis, stk[i].cubePos) # layer THEN stk[i]
        ELSE [stk[i] EXCEPT !.cubePos = RotateRound(axis, angleDeg, stk[i].cubePos, g),
                            !.normal = RotateRound(axis, angleDeg, stk[i].normal, g)]]

\* getStickerModelMatrices as it would be if it turned the layer the other
\* way round (the angle negated)
getStickerModelMatricesNegated(stk, a) ==
    [i \in DOMAIN stk |->
        [on |-> a.active /\ AxisCoord(a.axis, stk[i].cubePos) = a.layer,
         pivot |-> IF a.active THEN Scaled(a.layer * Spacing, a.axis) ELSE <<0, 0, 0>>,
         axis |-> a.axis,
         angle |-> IF a.active THEN -a.currentAngle ELSE 0,
         base |-> baseModel(stk[i])]]

\* the matrices getStickerModelMatrices returns for stickers stk and
\* animation a.  Entry i stands for T(pivot) * R(axis, angle) * T(-pivot) *
\* base when on is true and for base when it is false: pivot, axis and angle
\* are axisCenter, m_anim.axis and curAngle, computed once before the loop
getStickerModelMatrices(stk, a) ==
    [i \in DOMAIN stk |->
        [on |-> a.active /\ AxisCoord(a.axis, stk[i].cubePos) = a.layer,
         pivot |-> IF a.active THEN Scaled(a.layer * Spacing, a.axis) ELSE <<0, 0, 0>>,
         axis |-> a.axis,
         angle |-> IF a.active THEN a.currentAngle ELSE 0,
         base |-> baseModel(stk[i])]]

(***************************************************************************)
(* Animation.                                                              *)
(***************************************************************************)
FaceAxis(face) ==
    CASE face \in {"U", "D"} -> <<0, 1, 0>>
      [] face \in {"F", "B"} -> <<0, 0, 1>>
      [] face \in {"R", "L"} -> <<1, 0, 0>>
      [] OTHER -> <<0, 0, 0>>

\* FaceLayer as it would be if every move turned the middle slice
FaceLayerMiddle(face) == 0

FaceLayer(face) ==
    CASE face \in {"U", "F", "R"} -> 1
      [] face \in {"D", "B", "L"} -> -1
      [] OTHER -> 0

\* MoveAngle without the negation for a prime move
MoveAngleNoPrime(amount, prime) ==
    IF amount = 2 THEN 180 * Degree ELSE 90 * amount * Degree

\* MoveAngle as it would be if the amount were dropped
MoveAngleNoAmount(amount, prime) ==
    IF prime THEN -(90 * Degree) ELSE 90 * Degree

\* the angle startParsedMove computes
MoveAngle(amount, prime) ==
    IF amount = 2 THEN 180 * Degree
    ELSE IF prime THEN -(90 * amount * Degree) ELSE 90 * amount * Degree

\* startParsedMove: the animation record it leaves
startParsedMove(face, amount, prime) ==
    [active |-> TRUE,
     axis |-> FaceAxis(face),
     layer |-> FaceLayer(face),
     targetAngle |-> MoveAngle(amount, prime),
     currentAngle |-> 0]

\* startNextInQueue as it would be if it took the newest entry (back and
\* pop_back for front and erase(begin))
startNextInQueueLifo(a, q) ==
    IF a.active THEN [anim |-> a, queue |-> q]
    ELSE IF q = <<>> THEN [anim |-> a, queue |-> q]
    ELSE LET p == parseMove(q[Len(q)])
             rest == SubSeq(q, 1, Len(q) - 1)
         IN  IF ~p.ok THEN [anim |-> a, queue |-> rest]
             ELSE [anim |-> startParsedMove(p.face, p.amount, p.prime), queue |-> rest]

\* startNextInQueue on animation a and queue q: the pair it leaves
startNextInQueue(a, q) ==
    IF a.active THEN [anim |-> a, queue |-> q]
    ELSE IF q = <<>> THEN [anim |-> a, queue |-> q]
    ELSE LET p == parseMove(Head(q))
         IN  IF ~p.ok THEN [anim |-> a, queue |-> Tail(q)]
             ELSE [anim |-> startParsedMove(p.face, p.amount, p.prime), queue |-> Tail(q)]

\* the Anim record of a newly constructed Core
InitialAnim ==
    [active |-> FALSE, axis |-> <<0, 0, 0>>, layer |-> 0, targetAngle |-> 0, currentAngle |-> 0]

NoImm == [valid |-> FALSE, mid |-> FALSE, sym |-> <<>>, base |-> <<>>, nApplied |-> 0]

Init ==
    /\ stickers = buildInitialStickers
    /\ queue = <<>>
    /\ anim = InitialAnim
    /\ call = [op |-> "Core", ret |-> "void", completed |-> FALSE]
    /\ accepted = <<>>
    /\ applied = <<>>
    /\ fifoOnly = TRUE
    /\ imm = NoImm
    /\ nMoves = 0
    /\ atStart = buildInitialStickers

(***************************************************************************)
(* The public methods.                                                     *)
(***************************************************************************)
\* the arguments update passes to applyRotationDiscrete for animation a, with
\* the stickers it is applied to
MoveOf(a, stk) ==
    [axis |-> a.axis, layer |-> a.layer, angle |-> a.targetAngle, before |-> stk]

\* whether the animation is strictly between its start and its target
MidAnimation(a) ==
    a.active /\ Abs(a.currentAngle) > 0 /\ Abs(a.currentAngle) < Abs(a.targetAngle)

\* queueMove as it would be if it started the move itself on an idle core
QueueMoveEager(move) ==
    LET p == parseMove(move)
        next == startNextInQueue(anim, Append(queue, move))
    IN  /\ call' = [op |-> "queueMove", ret |-> p.ok, completed |-> FALSE]
        /\ IF ~p.ok
           THEN UNCHANGED <<queue, anim, accepted, nMoves, imm, atStart>>
           ELSE /\ queue' = next.queue
                /\ anim' = next.anim
                /\ accepted' = Append(accepted, move)
                /\ nMoves' = nMoves + 1
                /\ imm' = NoImm
                /\ atStart' = stickers
        /\ UNCHANGED <<stickers, applied, fifoOnly>>

\* bool Core::queueMove(move)
QueueMove(move) ==
    LET p == parseMove(move)
    IN  /\ call' = [op |-> "queueMove", ret |-> p.ok, completed |-> FALSE]
        /\ IF ~p.ok
           THEN UNCHANGED <<queue, accepted, nMoves, imm>>
           ELSE /\ queue' = Append(queue, move)
                /\ accepted' = Append(accepted, move)
                /\ nMoves' = nMoves + 1
                /\ imm' = NoImm
        /\ UNCHANGED <<stickers, anim, applied, fifoOnly, atStart>>

\* startMoveImmediate as it would be if it finished the move in flight (applied
\* its discrete mutation) before starting the new one
StartMoveImmediateFinishing(move) ==
    LET p == parseMove(move)
        finished == IF anim.active
                    THEN applyRotationDiscrete(stickers, anim.axis, anim.layer,
                                               anim.targetAngle, 0)
                    ELSE stickers
    IN  /\ call' = [op |-> "startMoveImmediate", ret |-> p.ok, completed |-> FALSE]
        /\ queue' = <<>>
        /\ fifoOnly' = FALSE
        /\ IF ~p.ok
           THEN UNCHANGED <<stickers, anim, nMoves, imm, atStart>>
           ELSE /\ anim' = startParsedMove(p.face, p.amount, p.prime)
                /\ stickers' = finished
                /\ nMoves' = nMoves + 1
                /\ imm' = [valid |-> TRUE, mid |-> MidAnimation(anim), sym |-> move,
                           base |-> atStart, nApplied |-> Len(applied)]
                /\ atStart' = finished
        /\ UNCHANGED <<accepted, applied>>

\* bool Core::startMoveImmediate(move)
StartMoveImmediate(move) ==
    LET p == parseMove(move)
    IN  /\ call' = [op |-> "startMoveImmediate", ret |-> p.ok, completed |-> FALSE]
        /\ queue' = <<>>
        /\ fifoOnly' = FALSE
        /\ IF ~p.ok
           THEN UNCHANGED <<anim, nMoves, imm, atStart>>
           ELSE /\ anim' = startParsedMove(p.face, p.amount, p.prime)
                /\ nMoves' = nMoves + 1
                /\ imm' = [valid |-> TRUE, mid |-> MidAnimation(anim), sym |-> move,
                           base |-> atStart, nApplied |-> Len(applied)]
                /\ atStart' = stickers
        /\ UNCHANGED <<stickers, accepted, applied>>

\* clearQueue as it would be if it also dropped the move in flight
ClearQueueAborting ==
    /\ queue' = <<>>
    /\ anim' = [anim EXCEPT !.active = FALSE, !.currentAngle = 0]
    /\ call' = [op |-> "clearQueue", ret |-> "void", completed |-> FALSE]
    /\ fifoOnly' = FALSE
    /\ UNCHANGED <<stickers, accepted, applied, imm, nMoves, atStart>>

\* void Core::clearQueue()
ClearQueue ==
    /\ queue' = <<>>
    /\ call' = [op |-> "clearQueue", ret |-> "void", completed |-> FALSE]
    /\ fifoOnly' = FALSE
    /\ UNCHANGED <<stickers, anim, accepted, applied, imm, nMoves, atStart>>

\* whether update(step) finishes animation a: the completion test
Completes(a, step) ==
    LET remaining == Abs(FloatRound(a.targetAngle - a.currentAngle))
        take == Min(step, remaining)
        current == FloatRound(a.currentAngle
                              + (IF a.targetAngle >= 0 THEN 1 ELSE -1) * take)
    IN  \/ Abs(Abs(current) - Abs(a.targetAngle)) < Eps1
        \/ remaining <= Eps2

\* currentAngle after update(step) has advanced animation a
Advance(a, step) ==
    LET remaining == Abs(FloatRound(a.targetAngle - a.currentAngle))
        take == Min(step, remaining)
    IN  FloatRound(a.currentAngle + (IF a.targetAngle >= 0 THEN 1 ELSE -1) * take)

\* update as it would be without the startNextInQueue call that follows a
\* completion
UpdateNoChain(step, g) ==
    /\ call' = [op |-> "update", ret |-> "void",
                completed |-> anim.active /\ Completes(anim, step)]
    /\ IF anim.active
       THEN IF Completes(anim, step)
            THEN /\ stickers' = applyRotationDiscrete(stickers, anim.axis,
                                     anim.layer, anim.targetAngle, g)
                 /\ applied' = Append(applied, MoveOf(anim, stickers))
                 /\ anim' = [anim EXCEPT !.active = FALSE, !.currentAngle = 0]
                 /\ UNCHANGED <<queue, atStart>>
            ELSE /\ anim' = [anim EXCEPT !.currentAngle = Advance(anim, step)]
                 /\ UNCHANGED <<stickers, queue, applied, atStart>>
       ELSE IF queue # <<>>
            THEN LET next == startNextInQueue(anim, queue)
                 IN  /\ anim' = next.anim
                     /\ queue' = next.queue
                     /\ atStart' = IF next.anim.active THEN stickers ELSE atStart
                     /\ UNCHANGED <<stickers, applied>>
            ELSE UNCHANGED <<stickers, queue, anim, applied, atStart>>
    /\ UNCHANGED <<accepted, fifoOnly, imm, nMoves>>

\* update as it would be if it spent its step on the move it starts: the move
\* chained after a completion or started from idle is advanced in that call
UpdateSpendingOnStarted(step, g) ==
    /\ call' = [op |-> "update", ret |-> "void",
                completed |-> anim.active /\ Completes(anim, step)]
    /\ IF anim.active
       THEN IF Completes(anim, step)
            THEN LET next == startNextInQueue(
                                 [anim EXCEPT !.active = FALSE, !.currentAngle = 0],
                                 queue)
                 IN  /\ stickers' = applyRotationDiscrete(stickers, anim.axis,
                                         anim.layer, anim.targetAngle, g)
                     /\ applied' = Append(applied, MoveOf(anim, stickers))
                     /\ anim' = IF next.anim.active
                                THEN [next.anim EXCEPT
                                         !.currentAngle = Advance(next.anim, Abs(step))]
                                ELSE next.anim
                     /\ queue' = next.queue
                     /\ atStart' = IF next.anim.active THEN stickers' ELSE atStart
            ELSE /\ anim' = [anim EXCEPT !.currentAngle = Advance(anim, step)]
                 /\ UNCHANGED <<stickers, queue, applied, atStart>>
       ELSE IF queue # <<>>
            THEN LET next == startNextInQueue(anim, queue)
                 IN  /\ anim' = IF next.anim.active
                                THEN [next.anim EXCEPT
                                         !.currentAngle = Advance(next.anim, Abs(step))]
                                ELSE next.anim
                     /\ queue' = next.queue
                     /\ atStart' = IF next.anim.active THEN stickers ELSE atStart
                     /\ UNCHANGED <<stickers, applied>>
            ELSE UNCHANGED <<stickers, queue, anim, applied, atStart>>
    /\ UNCHANGED <<accepted, fifoOnly, imm, nMoves>>

\* update as it would be if it turned the stickers in every call on an active
\* animation, not only in the one that completes it
UpdateMutatingEveryCall(step, g) ==
    /\ call' = [op |-> "update", ret |-> "void",
                completed |-> anim.active /\ Completes(anim, step)]
    /\ IF anim.active
       THEN IF Completes(anim, step)
            THEN LET next == startNextInQueue(
                                 [anim EXCEPT !.active = FALSE, !.currentAngle = 0],
                                 queue)
                 IN  /\ stickers' = applyRotationDiscrete(stickers, anim.axis,
                                         anim.layer, anim.targetAngle, g)
                     /\ applied' = Append(applied, MoveOf(anim, stickers))
                     /\ anim' = next.anim
                     /\ queue' = next.queue
                     /\ atStart' = IF next.anim.active THEN stickers' ELSE atStart
            ELSE /\ anim' = [anim EXCEPT !.currentAngle = Advance(anim, step)]
                 /\ stickers' = applyRotationDiscrete(stickers, anim.axis,
                                     anim.layer, anim.targetAngle, g)
                 /\ UNCHANGED <<queue, applied, atStart>>
       ELSE IF queue # <<>>
            THEN LET next == startNextInQueue(anim, queue)
                 IN  /\ anim' = next.anim
                     /\ queue' = next.queue
                     /\ atStart' = IF next.anim.active THEN stickers ELSE atStart
                     /\ UNCHANGED <<stickers, applied>>
            ELSE UNCHANGED <<stickers, queue, anim, applied, atStart>>
    /\ UNCHANGED <<accepted, fifoOnly, imm, nMoves>>

\* update as it would be without the branch that starts the next move on an
\* idle core
UpdateNoIdleStart(step, g) ==
    /\ call' = [op |-> "update", ret |-> "void",
                completed |-> anim.active /\ Completes(anim, step)]
    /\ IF anim.active
       THEN IF Completes(anim, step)
            THEN LET next == startNextInQueue(
                                 [anim EXCEPT !.active = FALSE, !.currentAngle = 0],
                                 queue)
                 IN  /\ stickers' = applyRotationDiscrete(stickers, anim.axis,
                                         anim.layer, anim.targetAngle, g)
                     /\ applied' = Append(applied, MoveOf(anim, stickers))
                     /\ anim' = next.anim
                     /\ queue' = next.queue
                     /\ atStart' = IF next.anim.active THEN stickers' ELSE atStart
            ELSE /\ anim' = [anim EXCEPT !.currentAngle = Advance(anim, step)]
                 /\ UNCHANGED <<stickers, queue, applied, atStart>>
       ELSE UNCHANGED <<stickers, queue, anim, applied, atStart>>
    /\ UNCHANGED <<accepted, fifoOnly, imm, nMoves>>

\* void Core::update(deltaSeconds), with step = speedDeg * deltaSeconds in
\* angle units and g the outcome of converting NaN to int
Update(step, g) ==
    /\ call' = [op |-> "update", ret |-> "void",
                completed |-> anim.active /\ Completes(anim, step)]
    /\ IF anim.active
       THEN IF Completes(anim, step)
            THEN LET next == startNextInQueue(
                                 [anim EXCEPT !.active = FALSE, !.currentAngle = 0],
                                 queue)
                 IN  /\ stickers' = applyRotationDiscrete(stickers, anim.axis,
                                         anim.layer, anim.targetAngle, g)
                     /\ applied' = Append(applied, MoveOf(anim, stickers))
                     /\ anim' = next.anim
                     /\ queue' = next.queue
                     /\ atStart' = IF next.anim.active THEN stickers' ELSE atStart
            ELSE /\ anim' = [anim EXCEPT !.currentAngle = Advance(anim, step)]
                 /\ UNCHANGED <<stickers, queue, applied, atStart>>
       ELSE IF queue # <<>>
            THEN LET next == startNextInQueue(anim, queue)
                 IN  /\ anim' = next.anim
                     /\ queue' = next.queue
                     /\ atStart' = IF next.anim.active THEN stickers ELSE atStart
                     /\ UNCHANGED <<stickers, applied>>
            ELSE UNCHANGED <<stickers, queue, anim, applied, atStart>>
    /\ UNCHANGED <<accepted, fifoOnly, imm, nMoves>>

(***************************************************************************)
(* The callers' inputs.                                                    *)
(***************************************************************************)
\* the symbols matching [UDLRFB]('|2)?
ValidSymbols ==
    {<<f>> \o suffix : f \in Faces, suffix \in {<<>>, <<"'">>, <<"2">>}}

\* strings parseMove is written to tolerate: lower case, spaces, 2'
TolerantSymbols == {<<"r">>, <<" ", "U", " ", "2">>, <<"F", "2", "'">>}

\* strings that are no move symbol
BadSymbols ==
    {<<>>, <<" ">>, <<"x">>, <<"2", "R">>, <<"R", "R">>, <<"R", "x">>, <<"R", "3">>,
     <<"R", "'", "'">>}

Inputs == ValidSymbols \cup TolerantSymbols \cup BadSymbols

\* speedDeg * deltaSeconds: a sixth of a second and a whole second at the
\* default 360 degrees per second
Steps == {60 * Degree, 360 * Degree}

\* the outcomes of the NaN conversions in the update that follows: the
\* conversion is reached only by a move whose axis is the zero vector
Garbage == IF anim.active /\ anim.axis = <<0, 0, 0>> THEN NaNToInt ELSE {0}

\* the callers of Spec stop after MaxMoves accepted moves
WithinBudget(move) == parseMove(move).ok => nMoves < MaxMoves

Next ==
    \/ \E move \in Inputs : WithinBudget(move) /\ QueueMove(move)
    \/ \E move \in Inputs : WithinBudget(move) /\ StartMoveImmediate(move)
    \/ ClearQueue
    \/ \E step \in Steps, g \in Garbage : Update(step, g)

\* every call with every string, up to MaxMoves accepted moves
Spec == Init /\ [][Next]_vars

(***************************************************************************)
(* Callers that pass valid symbols only.  They queue a scramble of at most *)
(* MaxScramble plain quarter turns on any faces, then one of the move      *)
(* sequences on a single face that spec section 8 names.  While at most    *)
(* MaxBefore moves have been queued they may instead call clearQueue or    *)
(* startMoveImmediate once, and then only drive update.                    *)
(***************************************************************************)
Turn(f, suffix) == <<f>> \o suffix

FacePatterns(f) ==
    {<<Turn(f, <<>>), Turn(f, <<>>), Turn(f, <<>>), Turn(f, <<>>)>>,
     <<Turn(f, <<"'">>), Turn(f, <<"'">>), Turn(f, <<"'">>), Turn(f, <<"'">>)>>,
     <<Turn(f, <<>>), Turn(f, <<"'">>)>>,
     <<Turn(f, <<"'">>), Turn(f, <<>>)>>,
     <<Turn(f, <<>>), Turn(f, <<"2">>), Turn(f, <<"'">>)>>}

\* the plain quarter turns: they generate every sticker state a sequence of
\* valid moves reaches (X2 = X X, X' = X X X)
ScrambleSymbols == {Turn(f, <<>>) : f \in Faces}

Patterns == UNION {FacePatterns(f) : f \in Faces}

IsPrefix(s, t) == Len(s) <= Len(t) /\ SubSeq(t, 1, Len(s)) = s

\* seq is a scramble of at most MaxScramble moves followed by the beginning
\* of a pattern
ScenarioAllows(seq) ==
    \E k \in 0..Min(MaxScramble, Len(seq)) :
        /\ \A i \in 1..k : seq[i] \in ScrambleSymbols
        /\ \E pat \in Patterns : IsPrefix(SubSeq(seq, k + 1, Len(seq)), pat)

NextValid ==
    \/ \E move \in ValidSymbols :
            fifoOnly /\ ScenarioAllows(Append(accepted, move)) /\ QueueMove(move)
    \/ \E move \in ScrambleSymbols :
            fifoOnly /\ Len(accepted) <= MaxBefore /\ StartMoveImmediate(move)
    \/ fifoOnly /\ Len(accepted) <= MaxBefore /\ ClearQueue
    \/ \E step \in Steps, g \in Garbage : Update(step, g)

SpecValid == Init /\ [][NextValid]_vars

(***************************************************************************)
(* Callers that use the whole public interface: every method, the queries  *)
(* included, with strings of every kind and with every kind of time step     *)
(* (zero, tiny, ordinary, huge, negative), up to MaxApiMoves accepted      *)
(* moves.                                                                  *)
(***************************************************************************)
\* SpecApi: the moves queueMove and startMoveImmediate accept in one run
MaxApiMoves == 2

\* SpecApi: the tiny steps an animation takes away from a whole degree
MaxTiny == 1

\* bool Core::isAnimating() const
IsAnimating ==
    /\ call' = [op |-> "isAnimating", ret |-> anim.active, completed |-> FALSE]
    /\ UNCHANGED <<stickers, queue, anim, accepted, applied, fifoOnly, imm, nMoves, atStart>>

\* the vector getStickerColors builds from the sticker sequence stk
getStickerColors(stk) == [i \in DOMAIN stk |-> stk[i].color]

\* std::vector<glm::vec3> Core::getStickerColors()
GetStickerColors ==
    /\ call' = [op |-> "getStickerColors", ret |-> getStickerColors(stickers),
                completed |-> FALSE]
    /\ UNCHANGED <<stickers, queue, anim, accepted, applied, fifoOnly, imm, nMoves, atStart>>

\* std::vector<glm::mat4> Core::getStickerModelMatrices()
GetStickerModelMatrices ==
    /\ call' = [op |-> "getStickerModelMatrices",
                ret |-> getStickerModelMatrices(stickers, anim), completed |-> FALSE]
    /\ UNCHANGED <<stickers, queue, anim, accepted, applied, fifoOnly, imm, nMoves, atStart>>

\* a prime move, a double move with the prime flag, a whitespace-only string,
\* the empty string and a string with no face letter
ApiInputs == {<<"U", "'">>, <<"F", "2", "'">>, <<" ">>, <<>>, <<"x">>}

\* the smallest step the angle unit resolves: 2^-18 degree, 5.3e-9 second at
\* the 720 degrees per second of main.cpp
TinyStep == 1

\* speedDeg * deltaSeconds for a huge deltaSeconds
HugeStep == 8000 * Degree

\* speedDeg * deltaSeconds for deltaSeconds zero, tiny, a sixteenth of a
\* second at the 720 degrees per second of main.cpp, negative, and huge
ApiSteps == {0, TinyStep, 45 * Degree, -(45 * Degree), HugeStep}

\* the callers of SpecApi stop after MaxApiMoves accepted moves, and take at
\* most MaxTiny tiny steps from a whole degree
ApiAllows(move) == parseMove(move).ok => nMoves < MaxApiMoves

TinyAllows(step) ==
    step = TinyStep => Abs(anim.currentAngle) % Degree < MaxTiny * TinyStep

NextApi ==
    \/ \E move \in ApiInputs : ApiAllows(move) /\ QueueMove(move)
    \/ \E move \in ApiInputs : ApiAllows(move) /\ StartMoveImmediate(move)
    \/ ClearQueue
    \/ \E step \in ApiSteps, g \in Garbage : TinyAllows(step) /\ Update(step, g)
    \/ IsAnimating
    \/ GetStickerModelMatrices
    \/ GetStickerColors

SpecApi == Init /\ [][NextApi]_vars

(***************************************************************************)
(* The program of main.cpp: each frame of the main loop calls update with  *)
(* the time the previous frame took, fetches what it draws, and then polls *)
(* the keys, which queue valid symbols or clear the queue.  The loop runs  *)
(* for as long as the window is open, so update and the fetch that follows *)
(* it keep being called.                                                   *)
(***************************************************************************)
\* SpecLive: the moves the keys queue in one run
MaxLiveMoves == 2

\* a quarter turn of a face of layer -1, a prime one and a double one
LiveMoves == {<<"L">>, <<"U", "'">>, <<"F", "2">>}

\* speedDeg * dt for a tiny frame time, a sixteenth of a second and a long
\* pause
LiveSteps == {TinyStep, 45 * Degree, HugeStep}

\* core.update(dt) of the main loop
LiveUpdate ==
    /\ call.op \notin {"update", "getStickerModelMatrices"}
    /\ \E step \in LiveSteps, g \in Garbage : TinyAllows(step) /\ Update(step, g)

\* the two fetches of the main loop, in its order
LiveRender ==
    \/ call.op = "update" /\ GetStickerModelMatrices
    \/ call.op = "getStickerModelMatrices" /\ GetStickerColors

\* keyCallback, run by glfwPollEvents at the end of a frame
LiveKey ==
    /\ call.op \notin {"update", "getStickerModelMatrices"}
    /\ \/ \E move \in LiveMoves : nMoves < MaxLiveMoves /\ QueueMove(move)
       \/ ClearQueue

NextLive == LiveUpdate \/ LiveRender \/ LiveKey

SpecLive == Init /\ [][NextLive]_vars /\ WF_vars(LiveUpdate) /\ WF_vars(LiveRender)

(***************************************************************************)
(* Claims.                                                                 *)
(***************************************************************************)
\* the logical state of the core that the claims compare
SameCore == queue' = queue /\ anim' = anim /\ stickers' = stickers

\* C1: startMoveImmediate with a symbol parseMove rejects returns false and
\* leaves the queue, the animation and every sticker as they were, whatever
\* the state it is called in.
C1_ImmediateUnparseableChangesNothing ==
    [][\A move \in Inputs :
          (~parseMove(move).ok /\ StartMoveImmediate(move))
              => (call'.ret = FALSE /\ SameCore)]_vars

\* the move symbols of claim C2: stripped of spaces and upper-cased, one face
\* letter followed by nothing, by ', by 2 or by 2'
Upper(s) == [i \in 1..Len(s) |-> toupper(s[i])]

IsMoveSymbol(move) ==
    LET s == Upper(StripSpace(move))
    IN  /\ Len(s) >= 1
        /\ s[1] \in Faces
        /\ Tail(s) \in {<<>>, <<"'">>, <<"2">>, <<"2", "'">>}

\* C2: queueMove returns false and leaves the queue, the animation and the
\* stickers unchanged for every string that is not a move symbol.
C2_QueueRejectsNonSymbols ==
    [][\A move \in Inputs :
          (~IsMoveSymbol(move) /\ QueueMove(move))
              => (call'.ret = FALSE /\ SameCore)]_vars

\* C3: queueMove of a symbol matching [UDLRFB]('|2)? returns true, appends
\* exactly that symbol at the tail of the queue and leaves the animation and
\* every sticker unchanged, in every state it is called in; on an idle core
\* it does not start the move.
C3_QueueAppendsValid ==
    [][\A move \in ValidSymbols :
          QueueMove(move)
              => /\ call'.ret = TRUE
                 /\ queue' = Append(queue, move)
                 /\ anim' = anim
                 /\ stickers' = stickers]_vars

\* a valid symbol was appended behind a waiting one while a move was mid-way
C3_Witness ==
    /\ call.op = "queueMove"
    /\ call.ret = TRUE
    /\ MidAnimation(anim)
    /\ Len(queue) = 2
    /\ queue[2] = accepted[Len(accepted)]
    /\ queue[2] \in ValidSymbols

\* the animation of a plain quarter turn of face f, just started
QuarterTurnStarted(f) ==
    [active |-> TRUE, axis |-> FaceAxis(f), layer |-> FaceLayer(f),
     targetAngle |-> 90 * Degree, currentAngle |-> 0]

\* the core went idle after an immediate move that interrupted a move mid-way
ImmediateDone == imm.valid /\ imm.mid /\ ~anim.active

\* C4: startMoveImmediate(Y) while a move X is mid-animation returns true,
\* empties the queue, starts Y at angle 0 and applies nothing of X; once the
\* core is idle again the stickers are those Y alone makes of the stickers
\* as they were before X started, after exactly one discrete mutation.
C4_ImmediateOverrides ==
    [][/\ \A y \in Faces :
            (MidAnimation(anim) /\ StartMoveImmediate(<<y>>))
                => /\ call'.ret = TRUE
                   /\ queue' = <<>>
                   /\ anim' = QuarterTurnStarted(y)
                   /\ stickers' = stickers
                   /\ applied' = applied
       /\ ImmediateDone'
            => /\ Len(applied') = imm'.nApplied + 1
               /\ stickers' = applyRotationDiscrete(imm'.base, FaceAxis(imm'.sym[1]),
                                   FaceLayer(imm'.sym[1]), 90 * Degree, 0)]_vars

\* an immediate move on another axis than the interrupted one ran to its end
\* while moves were waiting in the queue when it was called
C4_Witness ==
    /\ ImmediateDone
    /\ call.op = "update"
    /\ Len(accepted) > imm.nApplied + 1
    /\ applied[Len(applied)].axis = FaceAxis(imm.sym[1])
    /\ stickers # imm.base

\* two sticker sequences agree on every cubePos and normal
SameStickers(a, b) ==
    /\ DOMAIN a = DOMAIN b
    /\ \A i \in DOMAIN a : a[i].cubePos = b[i].cubePos /\ a[i].normal = b[i].normal

NormalDirections ==
    {<<1, 0, 0>>, <<-1, 0, 0>>, <<0, 1, 0>>, <<0, -1, 0>>, <<0, 0, 1>>, <<0, 0, -1>>}

\* C5: in every state valid moves (queued or immediate) and updates reach,
\* exactly 9 of the 54 stickers have each of the six unit normals.
C5_NineNormalsEach ==
    \A d \in NormalDirections :
        Cardinality({i \in DOMAIN stickers : stickers[i].normal = d}) = 9

\* queued moves and an immediate one have been applied, on different axes
C5_Witness ==
    /\ imm.valid
    /\ ~anim.active
    /\ Len(applied) >= 3
    /\ applied[1].axis # applied[2].axis
    /\ applied[2].axis # applied[3].axis
    /\ ~SameStickers(stickers, buildInitialStickers)

\* the stickers right after the n-th discrete mutation
After(n) == IF n = Len(applied) THEN stickers ELSE applied[n + 1].before

IsQuarter(sym) == sym \in {Turn(f, suffix) : f \in Faces, suffix \in {<<>>, <<"'">>}}

\* the moves n-3..n of a queue-driven run are one quarter turn four times
FourSame(n) ==
    /\ IsQuarter(accepted[n])
    /\ \A k \in (n - 3)..n : accepted[k] = accepted[n]

\* C6: four quarter turns of one face with the same sign, each animated to
\* completion, put every sticker back where it was before the four moves,
\* from whatever sticker state they start.
C6_FourQuarterTurnsIdentity ==
    fifoOnly =>
        \A n \in 4..Len(applied) :
            FourSame(n) => SameStickers(After(n), applied[n - 3].before)

\* four equal quarter turns completed after a turn of another face
C6_Witness ==
    /\ fifoOnly
    /\ Len(applied) = 5
    /\ FourSame(5)
    /\ accepted[1][1] # accepted[2][1]
    /\ ~SameStickers(applied[2].before, buildInitialStickers)
    /\ ~SameStickers(applied[3].before, applied[2].before)
    /\ SameStickers(stickers, applied[2].before)

\* a and b are the two opposite quarter turns of one face
Inverse(a, b) ==
    \E f \in Faces : {a, b} = {Turn(f, <<>>), Turn(f, <<"'">>)}

\* C7: X then X', or X' then X, each animated to completion, put every
\* sticker back exactly where it was, from whatever sticker state.
C7_InverseLaw ==
    fifoOnly =>
        \A n \in 2..Len(applied) :
            Inverse(accepted[n - 1], accepted[n])
                => SameStickers(After(n), applied[n - 1].before)

\* X' then X completed after a turn of another face
C7_Witness ==
    /\ fifoOnly
    /\ Len(applied) = 3
    /\ Inverse(accepted[2], accepted[3])
    /\ accepted[2][1] # accepted[1][1]
    /\ Len(accepted[2]) = 2
    /\ ~SameStickers(applied[3].before, applied[2].before)
    /\ SameStickers(stickers, applied[2].before)

\* the caller queued X, X2, X' on a new core and update ran them all
RanXX2Xp(f) ==
    /\ fifoOnly
    /\ accepted = <<Turn(f, <<>>), Turn(f, <<"2">>), Turn(f, <<"'">>)>>
    /\ Len(applied) = 3
    /\ ~anim.active
    /\ queue = <<>>

\* C8: from the initial cube, X, X2, X' queued and run until the core is
\* idle with an empty queue leave every sticker where a single X2 puts it.
C8_XX2XpIsX2 ==
    \A f \in Faces :
        RanXX2Xp(f)
            => SameStickers(stickers,
                   applyRotationDiscrete(buildInitialStickers, FaceAxis(f),
                       FaceLayer(f), 180 * Degree, 0))

\* B, B2, B' have run
C8_Witness == RanXX2Xp("B") /\ call.op = "update" /\ call.completed

\* the animation startParsedMove leaves for the queue entry sym
SymbolAnim(sym) ==
    LET p == parseMove(sym) IN startParsedMove(p.face, p.amount, p.prime)

\* C9: when update returns, a non-empty queue implies an active animation;
\* the update that completes a move while the queue is non-empty removes
\* the front entry and starts it in that same call, at angle 0.
C9_QueueNeverStalls ==
    [][call'.op = "update"
          => /\ queue' # <<>> => anim'.active
             /\ (call'.completed /\ queue # <<>>)
                    => /\ queue' = Tail(queue)
                       /\ anim' = SymbolAnim(Head(queue))
                       /\ anim'.active
                       /\ anim'.currentAngle = 0]_vars

\* an update completed a move and started the next one with more waiting
C9_Witness ==
    /\ call.op = "update"
    /\ call.completed
    /\ anim.active
    /\ anim.currentAngle = 0
    /\ queue # <<>>

\* the (axis, layer, angle) a record r of applied or an animation has
SameMove(r, a) == r.axis = a.axis /\ r.layer = a.layer /\ r.angle = a.targetAngle

\* C10: while only queueMove and update are called, the discrete mutations
\* are those of the accepted moves, in the order accepted, each once; the
\* move in flight is the next accepted one and the queue holds the rest.
C10_FifoOrder ==
    fifoOnly =>
        LET n == Len(applied)
            m == Len(accepted)
        IN  /\ n <= m
            /\ n >= 1 => SameStickers(applied[1].before, buildInitialStickers)
            /\ \A k \in 1..n :
                   /\ SameMove(applied[k], SymbolAnim(accepted[k]))
                   /\ SameStickers(After(k),
                          applyRotationDiscrete(applied[k].before, applied[k].axis,
                              applied[k].layer, applied[k].angle, 0))
            /\ IF anim.active
               THEN /\ n < m
                    /\ SameMove(MoveOf(anim, stickers), SymbolAnim(accepted[n + 1]))
                    /\ queue = SubSeq(accepted, n + 2, m)
               ELSE queue = SubSeq(accepted, n + 1, m)

\* three different queued moves have all been applied
C10_Witness ==
    /\ fifoOnly
    /\ Len(accepted) >= 3
    /\ Len(applied) = Len(accepted)
    /\ accepted[1] # accepted[2]
    /\ accepted[2] # accepted[3]
    /\ ~anim.active

\* v after a quarter turn about the outward normal n of a face, as an observer
\* outside the cube looking at that face sees it: counter-clockwise is the
\* right-handed rotation by +90 degrees about n, clockwise the one by -90
SeenFromOutside(n, v, clockwise) ==
    LET along == Dot(n, v)
        c == Cross(n, v)
        s == IF clockwise THEN -1 ELSE 1
    IN  <<s * c[1] + along * n[1], s * c[2] + along * n[2], s * c[3] + along * n[3]>>

\* the stickers after the layer of face f made that quarter turn
FaceTurned(stk, f, clockwise) ==
    LET n == FaceNormal(f)
    IN  [i \in DOMAIN stk |->
            IF Dot(n, stk[i].cubePos) # 1 THEN stk[i]
            ELSE [stk[i] EXCEPT !.cubePos = SeenFromOutside(n, stk[i].cubePos, clockwise),
                                !.normal = SeenFromOutside(n, stk[i].normal, clockwise)]]

\* C11: for every face X, a completed X leaves each sticker where the
\* clockwise quarter turn of the X layer, seen from outside the cube looking
\* at face X, puts it, and a completed X' where the counter-clockwise one does.
C11_PrimeIsCounterClockwise ==
    fifoOnly =>
        \A n \in 1..Len(applied) : \A f \in Faces :
            /\ accepted[n] = Turn(f, <<>>)
                   => SameStickers(After(n), FaceTurned(applied[n].before, f, TRUE))
            /\ accepted[n] = Turn(f, <<"'">>)
                   => SameStickers(After(n), FaceTurned(applied[n].before, f, FALSE))

\* C11 for the faces D, L and B alone, whose outward normal is the negative
\* axis
C11_NegativeFacesOnly ==
    fifoOnly =>
        \A n \in 1..Len(applied) : \A f \in {"D", "L", "B"} :
            /\ accepted[n] = Turn(f, <<>>)
                   => SameStickers(After(n), FaceTurned(applied[n].before, f, TRUE))
            /\ accepted[n] = Turn(f, <<"'">>)
                   => SameStickers(After(n), FaceTurned(applied[n].before, f, FALSE))

\* C11 with the directions exchanged, for the faces U, R and F
C11_PositiveFacesReversed ==
    fifoOnly =>
        \A n \in 1..Len(applied) : \A f \in {"U", "R", "F"} :
            /\ accepted[n] = Turn(f, <<>>)
                   => SameStickers(After(n), FaceTurned(applied[n].before, f, FALSE))
            /\ accepted[n] = Turn(f, <<"'">>)
                   => SameStickers(After(n), FaceTurned(applied[n].before, f, TRUE))

\* the color the claim gives the face a sticker index was created on
CreationColor(i) ==
    LET face == <<"U", "R", "F", "D", "L", "B">>[((i - 1) \div 9) + 1]
    IN  CASE face = "U" -> "white"
          [] face = "R" -> "green"
          [] face = "F" -> "red"
          [] face = "D" -> "yellow"
          [] face = "L" -> "blue"
          [] face = "B" -> "orange"

\* C12: after any sequence of calls, with any strings and steps, there are
\* exactly 54 stickers, sticker index i has the color of the face it was
\* created on (U, R, F, D, L, B, nine each), wherever it sits now, and
\* getStickerColors returns those 54 colors in that order.
C12_ColorsFixed ==
    /\ DOMAIN stickers = 1..54
    /\ \A i \in 1..54 : stickers[i].color = CreationColor(i)
    /\ call.op = "getStickerColors" => call.ret = [i \in 1..54 |-> CreationColor(i)]

\* getStickerColors was called after two moves on different axes took
\* stickers off the faces they were created on
C12_Witness ==
    /\ call.op = "getStickerColors"
    /\ Len(applied) = 2
    /\ applied[1].axis # applied[2].axis
    /\ applied[1].axis # <<0, 0, 0>>
    /\ applied[2].axis # <<0, 0, 0>>
    /\ \E i \in 1..54 : stickers[i].normal # buildInitialStickers[i].normal

\* the core is at rest: no animation and nothing queued
Idle == ~anim.active /\ queue = <<>>

\* an update with a huge step finishes the move in flight in that call
HugeCompletes ==
    [][\A g \in Garbage : (anim.active /\ Update(HugeStep, g)) => call'.completed]_vars

\* an update of an active animation with the tiny step
TinyOnActive == anim.active /\ \E g \in Garbage : Update(TinyStep, g)

\* C13 as stated: whatever positive steps the updates take, once the keys
\* stop every move in flight and every queued move completes and the core
\* stays at rest with an empty queue; and an update with a huge step
\* completes the active move in that call.
C13_EventuallyIdle == <>[]Idle /\ HugeCompletes

\* C13 amended: the same, provided that from some time on no update of an
\* active animation takes a step below the spacing of the floats at the
\* angle reached.
C13_EventuallyIdleUnlessAbsorbed ==
    ((<>[][~TinyOnActive]_vars) => <>[]Idle) /\ HugeCompletes

\* two queued moves have both completed and the core is at rest
C13_Witness ==
    /\ Idle
    /\ call.op = "update"
    /\ call.completed
    /\ Len(accepted) = 2
    /\ Len(applied) = 2

Minus(u, v) == <<u[1] - v[1], u[2] - v[2], u[3] - v[3]>>

\* v turned about the unit vector a by angle, a multiple of 90 degrees
\* (Rodrigues' formula)
TurnedAbout(a, angle, v) ==
    LET c == Cos(angle)
        s == Sin(angle)
        along == Dot(a, v)
        x == Cross(a, v)
    IN  <<c * v[1] + s * x[1] + (1 - c) * along * a[1],
          c * v[2] + s * x[2] + (1 - c) * along * a[2],
          c * v[3] + s * x[3] + (1 - c) * along * a[3]>>

\* the matrix an entry m of getStickerModelMatrices stands for, as its
\* translation and the three columns of its linear part
MatrixOf(m) ==
    IF ~m.on THEN m.base
    ELSE [pos |-> Plus(m.pivot, TurnedAbout(m.axis, m.angle, Minus(m.base.pos, m.pivot))),
          linear |-> <<TurnedAbout(m.axis, m.angle, m.base.linear[1]),
                       TurnedAbout(m.axis, m.angle, m.base.linear[2]),
                       TurnedAbout(m.axis, m.angle, m.base.linear[3])>>]

\* the n-th completed move as it was just before its discrete mutation:
\* active, with currentAngle equal to targetAngle
AtTarget(n) ==
    [active |-> TRUE, axis |-> applied[n].axis, layer |-> applied[n].layer,
     targetAngle |-> applied[n].angle, currentAngle |-> applied[n].angle]

InLayer(n, i) ==
    AxisCoord(applied[n].axis, applied[n].before[i].cubePos) = applied[n].layer

\* an animation that has not moved yet shows every sticker of its layer at
\* the sticker's baseModel
StartContinuity ==
    (anim.active /\ anim.currentAngle = 0 /\ anim.axis \in UnitVectors)
        => LET mats == getStickerModelMatrices(stickers, anim)
           IN  \A i \in DOMAIN stickers :
                   AxisCoord(anim.axis, stickers[i].cubePos) = anim.layer
                       => MatrixOf(mats[i]) = baseModel(stickers[i])

\* the unit square of the quad, seen as the set of the directions of its
\* sides: two linear parts with the same set map the square to the same place
Sides(linear) ==
    {linear[1], Scaled(-1, linear[1]), linear[2], Scaled(-1, linear[2])}

\* the transforms getStickerModelMatrices gives at the end of the latest
\* completed move
EndMatrices == getStickerModelMatrices(applied[Len(applied)].before, AtTarget(Len(applied)))

\* C14 as stated: in an animation about a unit axis, at currentAngle =
\* targetAngle the transform of every sticker of the layer has the position
\* and the orientation of the baseModel the sticker gets from the discrete
\* mutation; at currentAngle = 0 it is the sticker's baseModel.
C14_EndMatrixIsNextBaseModel ==
    /\ StartContinuity
    /\ (call.op = "update" /\ call.completed /\ applied[Len(applied)].axis \in UnitVectors)
           => LET mats == EndMatrices
              IN  \A i \in DOMAIN stickers :
                      InLayer(Len(applied), i)
                          => MatrixOf(mats[i]) = baseModel(After(Len(applied))[i])

\* C14 amended: in an animation about a unit axis, at currentAngle =
\* targetAngle the transform of every sticker of the layer has the position
\* and the facing direction of the baseModel the sticker gets from the
\* discrete mutation, and puts the square of the quad where that baseModel
\* puts it (the quad may be turned in its own plane by a multiple of 90
\* degrees); at currentAngle = 0 it is the sticker's baseModel.
C14_EndMatrixShowsNextBaseModel ==
    /\ StartContinuity
    /\ (call.op = "update" /\ call.completed /\ applied[Len(applied)].axis \in UnitVectors)
           => LET mats == EndMatrices
              IN  \A i \in DOMAIN stickers :
                      InLayer(Len(applied), i)
                          => LET m == MatrixOf(mats[i])
                                 b == baseModel(After(Len(applied))[i])
                             IN  /\ m.pos = b.pos
                                 /\ m.linear[3] = b.linear[3]
                                 /\ Sides(m.linear) = Sides(b.linear)

\* a half turn has completed and then a prime quarter turn, whose end
\* matrices differ from the baseModels its stickers had before it
C14_Witness ==
    /\ call.op = "update"
    /\ call.completed
    /\ Len(applied) = 2
    /\ applied[1].angle = 180 * Degree
    /\ applied[2].angle = -(90 * Degree)
    /\ \E i \in DOMAIN stickers :
           InLayer(2, i) /\ MatrixOf(EndMatrices[i]) # baseModel(applied[2].before[i])

\* the (axis, layer) pairs of the face mapping of claim C15
ClaimedAxisLayer(face) ==
    CASE face = "U" -> <<<<0, 1, 0>>, 1>>
      [] face = "D" -> <<<<0, 1, 0>>, -1>>
      [] face = "F" -> <<<<0, 0, 1>>, 1>>
      [] face = "B" -> <<<<0, 0, 1>>, -1>>
      [] face = "R" -> <<<<1, 0, 0>>, 1>>
      [] face = "L" -> <<<<1, 0, 0>>, -1>>

WellFormed(a) ==
    /\ <<a.axis, a.layer>> \in {ClaimedAxisLayer(f) : f \in Faces}
    /\ a.targetAngle \in {90 * Degree, -(90 * Degree), 180 * Degree}

\* C15: whenever an animation is active, whatever strings the public methods
\* were called with, its axis is one of (1,0,0), (0,1,0), (0,0,1), its layer
\* is +1 or -1, the two are the pair of one of the six faces, and its
\* targetAngle is +90, -90 or +180.
C15_AnimationWellFormed == anim.active => WellFormed(anim)

\* C15 for the animations that a move symbol started: the record is well
\* formed and is the one the face mapping gives the symbol's face
C15_WellFormedFromSymbols ==
    [][\A move \in ValidSymbols \cup ScrambleSymbols :
          ((QueueMove(move) \/ StartMoveImmediate(move)) /\ anim' # anim)
              => /\ anim'.active
                 /\ WellFormed(anim')
                 /\ <<anim'.axis, anim'.layer>> = ClaimedAxisLayer(toupper(StripSpace(move)[1]))
                 /\ anim'.targetAngle # 180 * Degree <=> Len(StripSpace(move)) = 1
                        \/ StripSpace(move)[2] = "'"]_vars

\* C15 where it fails: an active animation about the zero vector in layer 0
C15_ZeroAxisAnimation ==
    anim.active /\ anim.axis = <<0, 0, 0>> /\ anim.layer = 0 /\ anim.targetAngle = 90 * Degree

\* the exact right-handed rotation of the integer vector v by angle about a
\* positive unit axis, written out coordinate by coordinate
ExactRotation(axis, angle, v) ==
    LET x == v[1]
        y == v[2]
        z == v[3]
    IN  CASE axis = <<1, 0, 0>> /\ angle = 90 * Degree -> <<x, -z, y>>
          [] axis = <<1, 0, 0>> /\ angle = -(90 * Degree) -> <<x, z, -y>>
          [] axis = <<1, 0, 0>> /\ angle = 180 * Degree -> <<x, -y, -z>>
          [] axis = <<0, 1, 0>> /\ angle = 90 * Degree -> <<z, y, -x>>
          [] axis = <<0, 1, 0>> /\ angle = -(90 * Degree) -> <<-z, y, x>>
          [] axis = <<0, 1, 0>> /\ angle = 180 * Degree -> <<-x, y, -z>>
          [] axis = <<0, 0, 1>> /\ angle = 90 * Degree -> <<-y, x, z>>
          [] axis = <<0, 0, 1>> /\ angle = -(90 * Degree) -> <<y, -x, z>>
          [] axis = <<0, 0, 1>> /\ angle = 180 * Degree -> <<-x, -y, z>>

\* the latest completed move turned the stickers of its layer by the exact
\* rotation and left the others as they were
LastMutationExact ==
    LET m == applied[Len(applied)]
    IN  /\ m.axis \in {<<1, 0, 0>>, <<0, 1, 0>>, <<0, 0, 1>>}
        /\ m.angle \in {90 * Degree, -(90 * Degree), 180 * Degree}
        /\ \A i \in DOMAIN stickers :
               IF Dot(m.axis, m.before[i].cubePos) = m.layer
               THEN /\ stickers[i].cubePos = ExactRotation(m.axis, m.angle, m.before[i].cubePos)
                    /\ stickers[i].normal = ExactRotation(m.axis, m.angle, m.before[i].normal)
               ELSE /\ stickers[i].cubePos = m.before[i].cubePos
                    /\ stickers[i].normal = m.before[i].normal

\* C16: the discrete mutation applied when a move with (axis, layer,
\* targetAngle) completes is the exact right-handed rotation by targetAngle
\* about the axis: the stickers whose cubePos component along the axis is
\* layer get cubePos and normal replaced by their rotated images, all others
\* keep cubePos and normal.
C16_MutationIsExactRotation ==
    (call.op = "update" /\ call.completed) => LastMutationExact

\* C16 where it fails: a completed move about the zero vector, which took
\* stickers off the cube
C16_ZeroAxisMutation ==
    /\ call.op = "update"
    /\ call.completed
    /\ applied[Len(applied)].axis = <<0, 0, 0>>
    /\ \E i \in DOMAIN stickers : stickers[i].normal \notin UnitVectors

PositiveUnitAxes == {<<1, 0, 0>>, <<0, 1, 0>>, <<0, 0, 1>>}

\* stk turned as the move of animation a turns it: the layer by the exact
\* rotation by a.targetAngle, the rest left alone
TurnedByTarget(stk, a) ==
    [i \in DOMAIN stk |->
        IF Dot(a.axis, stk[i].cubePos) = a.layer
        THEN [stk[i] EXCEPT !.cubePos = ExactRotation(a.axis, a.targetAngle, stk[i].cubePos),
                            !.normal = ExactRotation(a.axis, a.targetAngle, stk[i].normal)]
        ELSE stk[i]]

SamePlaces(stk1, stk2) ==
    \A i \in DOMAIN stk1 :
        stk1[i].cubePos = stk2[i].cubePos /\ stk1[i].normal = stk2[i].normal

\* the call just made was an update that completed the active animation
CompletingUpdate == call'.op = "update" /\ call'.completed

\* C17: an update that does not complete the active animation and every
\* call of queueMove, startMoveImmediate, clearQueue, isAnimating,
\* getStickerModelMatrices and getStickerColors leave every cubePos and normal
\* unchanged; the update in which a started move completes mutates the
\* stickers once, by targetAngle (whatever currentAngle the move ended at),
\* and ends the move, so that no later call mutates for it again.
C17_StickersChangeOnlyAtCompletion ==
    [][/\ ~CompletingUpdate => SamePlaces(stickers', stickers)
       /\ CompletingUpdate
            => /\ anim.active
               /\ Len(applied') = Len(applied) + 1
               /\ applied'[Len(applied')].before = stickers
               /\ anim.axis \in PositiveUnitAxes
                     => stickers' = TurnedByTarget(stickers, anim)
               /\ \/ ~anim'.active /\ queue = <<>>
                  \/ anim'.currentAngle = 0 /\ queue' = Tail(queue)]_vars

\* a prime quarter turn has just completed, and the stickers are those from
\* before the call turned by its target angle
C17_Witness ==
    /\ call.op = "update"
    /\ call.completed
    /\ applied # <<>>
    /\ applied[Len(applied)].angle = -(90 * Degree)
    /\ stickers # applied[Len(applied)].before
    /\ stickers = TurnedByTarget(applied[Len(applied)].before,
                                 [axis |-> applied[Len(applied)].axis,
                                  layer |-> applied[Len(applied)].layer,
                                  targetAngle |-> applied[Len(applied)].angle])

\* x lies between 0 and target inclusive
Between(x, target) == IF target >= 0 THEN 0 <= x /\ x <= target ELSE target <= x /\ x <= 0

\* what claim C18 says of update(step) on the active animation a (the step
\* being speedDeg * deltaSeconds): the currentAngle the call computes lies
\* between 0 and targetAngle, is no farther from targetAngle than before, and
\* the call completes the move only if that angle is targetAngle, up to the
\* tolerance of the completion test
NoOvershoot(a, step) ==
    LET current == Advance(a, step)
    IN  /\ Between(current, a.targetAngle)
        /\ Abs(a.targetAngle - current) <= Abs(a.targetAngle - a.currentAngle)
        /\ Completes(a, step) => Abs(a.targetAngle - current) < Eps1

\* C18: for every update on an active animation and every time step the
\* caller may pass (zero, tiny, huge, negative), currentAngle afterwards lies
\* between 0 and targetAngle inclusive, has the target's sign, is no farther
\* from targetAngle than before, and the animation is completed in the call
\* only if currentAngle has reached targetAngle in it.
C18_NeverOvershootsOrRetreats ==
    [][\A step \in ApiSteps, g \in NaNToInt :
          (anim.active /\ Update(step, g))
              => /\ NoOvershoot(anim, step)
                 /\ ~call'.completed => anim'.currentAngle = Advance(anim, step)]_vars

\* C18 for the time steps that are not negative, on an animation whose
\* currentAngle lies between 0 and targetAngle
C18_ForwardStepsOnly ==
    [][\A step \in ApiSteps, g \in NaNToInt :
          (/\ anim.active
           /\ Between(anim.currentAngle, anim.targetAngle)
           /\ step >= 0
           /\ Update(step, g))
              => /\ NoOvershoot(anim, step)
                 /\ ~call'.completed => anim'.currentAngle = Advance(anim, step)]_vars

\* C18 where it fails: an animation whose currentAngle has the sign opposite
\* to its target's
C18_MovedAway ==
    /\ anim.active
    /\ anim.targetAngle < 0
    /\ anim.currentAngle > 0

\* clearQueue has been called after the last queueMove, and no
\* startMoveImmediate since
Cleared == ~fifoOnly /\ ~imm.valid

\* C19: clearQueue empties the queue and leaves the animation record and the
\* stickers as they were.  After it, with no further queueMove or
\* startMoveImmediate, the move in flight goes on towards its target, the
\* update that completes it applies its discrete mutation and leaves the core
\* idle with an empty queue, and from then on no update changes anything: the
\* moves applied stay a prefix of the moves accepted, the dropped ones are
\* never applied.
C19_ClearQueueOnlyEmptiesQueue ==
    [][/\ call'.op = "clearQueue"
            => /\ queue' = <<>>
               /\ anim' = anim
               /\ stickers' = stickers
               /\ applied' = applied
       /\ (Cleared /\ call'.op = "update")
            => /\ queue' = <<>>
               /\ IF ~anim.active
                  THEN anim' = anim /\ stickers' = stickers /\ applied' = applied
                  ELSE IF call'.completed
                  THEN /\ stickers' = TurnedByTarget(stickers, anim)
                       /\ Len(applied') = Len(applied) + 1
                       /\ ~anim'.active
                  ELSE /\ anim' = [anim EXCEPT !.currentAngle = anim'.currentAngle]
                       /\ Abs(anim.targetAngle - anim'.currentAngle)
                              < Abs(anim.targetAngle - anim.currentAngle)
                       /\ stickers' = stickers
                       /\ applied' = applied
       /\ Cleared'
            => /\ Len(applied') <= Len(accepted')
               /\ \A k \in 1..Len(applied') :
                      SameMove(applied'[k], SymbolAnim(accepted'[k]))]_vars

\* clearQueue was called while a move was animating with another one queued;
\* the move in flight has just completed and the core is idle, the queued one
\* dropped
C19_Witness ==
    /\ Cleared
    /\ call.op = "update"
    /\ call.completed
    /\ ~anim.active
    /\ queue = <<>>
    /\ Len(applied) >= 1
    /\ Len(applied) < Len(accepted)

\* the 27 slots of the cube
Slots == {<<x, y, z>> : x \in -1..1, y \in -1..1, z \in -1..1}

\* 3 for a corner slot, 2 for an edge, 1 for a face centre, 0 for the core
NonZeroComponents(p) == Cardinality({k \in 1..3 : p[k] # 0})

\* C20: initially and after any sequence of valid moves, every cubePos
\* component is in -1..1, every normal has exactly one nonzero component,
\* which is 1 or -1, and points outward (the cubePos component on the
\* normal's axis has the normal's sign), no two stickers share the pair
\* (cubePos, normal), and each slot hosts 3 stickers if it is a corner, 2 if
\* an edge, 1 if a face centre and none if it is the core.
C20_CubieStructure ==
    /\ \A i \in DOMAIN stickers :
           /\ stickers[i].cubePos \in Slots
           /\ Cardinality({k \in 1..3 : stickers[i].normal[k] # 0}) = 1
           /\ \E k \in 1..3 :
                  /\ stickers[i].normal[k] \in {1, -1}
                  /\ stickers[i].cubePos[k] = stickers[i].normal[k]
    /\ Cardinality({<<stickers[i].cubePos, stickers[i].normal>> : i \in DOMAIN stickers})
           = Len(stickers)
    /\ \A p \in Slots :
           Cardinality({i \in DOMAIN stickers : stickers[i].cubePos = p})
               = NonZeroComponents(p)

\* three moves have been applied, the last two about different axes, and a
\* sticker created on a corner slot now sits on another corner, facing
\* another way
C20_Witness ==
    /\ Len(applied) = 3
    /\ applied[2].axis # applied[3].axis
    /\ \E i \in DOMAIN stickers :
           /\ NonZeroComponents(buildInitialStickers[i].cubePos) = 3
           /\ stickers[i].cubePos # buildInitialStickers[i].cubePos
           /\ stickers[i].normal # buildInitialStickers[i].normal

\* the update calls the core still needs before it is at rest: one for each
\* queued move, one for the move in flight, and one to start the first
\* queued move when the core is idle
UpdatesNeeded ==
    IF anim.active THEN 1 + Len(queue)
    ELSE IF queue # <<>> THEN Len(queue) + 1
    ELSE 0

\* C21: an update call, whatever its step, applies at most one discrete
\* mutation and takes at most one move off the queue; a move it starts, from
\* idle or chained after a completion, is active with currentAngle = 0 when
\* the call returns (the time left over is not spent on it); the call that
\* starts a move from idle mutates nothing; so each call lowers the number
\* of calls still needed by at most one, which is n + 1 for n moves queued
\* on an idle core and 0 only at rest.
C21_OneMovePerUpdate ==
    [][call'.op = "update"
          => /\ Len(applied') <= Len(applied) + 1
             /\ Len(applied') = Len(applied) + 1 <=> call'.completed
             /\ Len(queue') >= Len(queue) - 1
             /\ Len(queue') < Len(queue) => anim'.active /\ anim'.currentAngle = 0
             /\ ~anim.active
                   => /\ stickers' = stickers
                      /\ applied' = applied
                      /\ queue # <<>> => anim'.active /\ queue' = Tail(queue)
             /\ UpdatesNeeded' >= UpdatesNeeded - 1
             /\ (~anim.active /\ queue # <<>>) => UpdatesNeeded = Len(queue) + 1
             /\ UpdatesNeeded' = 0 <=> ~anim'.active /\ queue' = <<>>]_vars

\* one update has completed the first of two queued moves and started the
\* second, which has not moved
C21_Witness ==
    /\ call.op = "update"
    /\ call.completed
    /\ Len(accepted) = 2
    /\ Len(applied) = 1
    /\ anim.active
    /\ anim.currentAngle = 0
    /\ queue = <<>>

\* the indices of claim C22, counted from 0 as in m_stickers
CentreIndices == {4, 13, 22, 31, 40, 49}

\* the indices, counted from 0, of the stickers created with exactly one
\* nonzero cubePos component
CreatedOnCentres ==
    {k \in 0..53 : NonZeroComponents(buildInitialStickers[k + 1].cubePos) = 1}

\* C22: the stickers with the indices 4, 13, 22, 31, 40, 49 are the six whose
\* cubePos has exactly one nonzero component; after any sequence of valid
\* moves they have the cubePos and the normal they were created with, so
\* the sticker of the k-th face created sits at the centre of that face,
\* facing outward, with that face's original color.
C22_CentresFixed ==
    /\ CreatedOnCentres = CentreIndices
    /\ \A k \in CentreIndices :
           /\ stickers[k + 1].cubePos = buildInitialStickers[k + 1].cubePos
           /\ stickers[k + 1].normal = buildInitialStickers[k + 1].normal
    /\ \A k \in CentreIndices :
           LET f == FACE_ORDER[(k \div 9) + 1]
           IN  /\ stickers[k + 1].cubePos = FaceNormal(f)
               /\ stickers[k + 1].normal = FaceNormal(f)
               /\ stickers[k + 1].color = faceToColor(f)

\* two moves about different axes have completed, one of a layer +1 and one
\* of a layer -1, each turning the face round its centre sticker, and an edge
\* sticker has left its place
C22_Witness ==
    /\ Len(applied) = 2
    /\ applied[1].axis # applied[2].axis
    /\ applied[1].layer # applied[2].layer
    /\ \A n \in 1..2 :
           \E k \in CentreIndices :
               AxisCoord(applied[n].axis, applied[n].before[k + 1].cubePos) = applied[n].layer
    /\ \E i \in DOMAIN stickers :
           /\ NonZeroComponents(buildInitialStickers[i].cubePos) = 2
           /\ stickers[i].cubePos # buildInitialStickers[i].cubePos

====
